---- MODULE Spec2Model ----
(***************************************************************************)
(* Model of src/extra/extra-tablets.py: the paginating scraper             *)
(* (fetch_products), the per-item extraction (extract_product_data,        *)
(* format_brand) and the batch persister (save_to_postgresql).             *)
(*                                                                         *)
(* Python strings are sequences of one-character strings, Python dicts are *)
(* functions whose DOMAIN is the set of keys present, Python lists are     *)
(* sequences.  A price is a tagged value so that None and a number can     *)
(* live in the same field.                                                 *)
(***************************************************************************)
EXTENDS Integers, Sequences, FiniteSets, TLC

\* ------------------------------------------------------------------ bounds
\* Most page requests one run of the model issues.
MaxRequests == 3
\* Item count of the short pages the modelled server can answer with
\* (besides the empty page and the full page of PageRows items).
SmallPage == 2

\* ------------------------------------------------------- program constants
\* start_index += 96
PageStep == 96
\* rows=96 in API_URL: the size of a full page
PageRows == 96
\* time.sleep(5)
SleepSeconds == 5
\* timedelta(hours=3), in seconds
GmtOffset == 10800
\* SimpleConnectionPool(..., maxconn=100)
MaxConn == 100
\* response.status_code != 200
StatusOk == 200

\* ------------------------------------------------------------ Python values
PyNone == [t |-> "none", v |-> 0]
Num(x) == [t |-> "num", v |-> x]

\* dict.get(key, default)
Get(d, key, default) == IF key \in DOMAIN d THEN d[key] ELSE default

\* The dict that keeps the keys `keys` of the record `full`.
Dict(full, keys) == [k \in keys |-> full[k]]

\* -------------------------------------------------------------- str.upper()
LowerCase ==
  <<"a","b","c","d","e","f","g","h","i","j","k","l","m",
    "n","o","p","q","r","s","t","u","v","w","x","y","z">>
UpperCase ==
  <<"A","B","C","D","E","F","G","H","I","J","K","L","M",
    "N","O","P","Q","R","S","T","U","V","W","X","Y","Z">>

UpperChar(c) ==
  IF \E i \in 1..26 : LowerCase[i] = c
  THEN UpperCase[CHOOSE i \in 1..26 : LowerCase[i] = c]
  ELSE c

upper(s) == [i \in 1..Len(s) |-> UpperChar(s[i])]

\* ------------------------------------------------------------- format_brand
brand_mapping ==
  << <<  <<"T","E","C","N","O">>,             <<"T","e","c","n","o">> >>,
     <<  <<"A","P","P","L","E">>,             <<"A","p","p","l","e">> >>,
     <<  <<"N","O","K","I","A">>,             <<"N","o","k","i","a">> >>,
     <<  <<"X","I","A","O","M","I">>,         <<"X","i","a","o","m","i">> >>,
     <<  <<"V","I","V","O">>,                 <<"V","i","v","o">> >>,
     <<  <<"M","O","T","O","R","O","L","A">>, <<"M","o","t","o","r","o","l","a">> >>,
     <<  <<"H","U","A","W","E","I">>,         <<"H","u","a","w","e","i">> >>,
     <<  <<"N","O","T","H","I","N","G">>,     <<"N","o","t","h","i","n","g">> >>,
     <<  <<"R","E","A","L","M","E">>,         <<"R","e","a","l","m","e">> >>,
     <<  <<"H","O","N","O","R">>,             <<"H","o","n","o","r">> >>,
     <<  <<"S","A","M","S","N","G">>,         <<"S","a","m","s","u","n","g">> >>,
     <<  <<"I","N","F","I","N","I","X">>,     <<"I","n","f","i","n","i","x">> >> >>

\* Variant: the table is looked up with the brand as given, not upper-cased.
format_brand_exact(brand) ==
  LET hit == {i \in 1..Len(brand_mapping) : brand_mapping[i][1] = brand}
  IN  IF hit = {} THEN brand ELSE brand_mapping[CHOOSE i \in hit : TRUE][2]

format_brand(brand) ==
  LET key == upper(brand)
      hit == {i \in 1..Len(brand_mapping) : brand_mapping[i][1] = key}
  IN  IF hit = {} THEN brand ELSE brand_mapping[CHOOSE i \in hit : TRUE][2]

\* ----------------------------------------------------- extract_product_data
NoNameAvailable ==
  <<"N","o"," ","N","a","m","e"," ","A","v","a","i","l","a","b","l","e">>
NoProcessorInfoAvailable ==
  <<"N","o"," ","P","r","o","c","e","s","s","o","r"," ","I","n","f","o"," ",
    "A","v","a","i","l","a","b","l","e">>
NoURLAvailable ==
  <<"N","o"," ","U","R","L"," ","A","v","a","i","l","a","b","l","e">>
NoBrandAvailable ==
  <<"N","o"," ","B","r","a","n","d"," ","A","v","a","i","l","a","b","l","e">>
CategoryTablets == <<"t","a","b","l","e","t","s">>
StoreExtra == <<"e","x","t","r","a">>

\* product_name.split(',', 1): the parts around the first comma.
SplitFirstComma(s) ==
  LET commas == {i \in 1..Len(s) : s[i] = ","}
  IN  IF commas = {} THEN <<s>>
      ELSE LET c == CHOOSE i \in commas : \A j \in commas : i <= j
           IN  << SubSeq(s, 1, c - 1), SubSeq(s, c + 1, Len(s)) >>

\* (utcnow() + 3h).replace(minute=0, second=0, microsecond=0) formatted with
\* '%Y-%m-%d %H:%M:%S'.  The clock counts seconds; the date is a day number.
current_time_str(clock) ==
  LET t == clock + GmtOffset
  IN  << t \div 86400, (t % 86400) \div 3600, 0, 0 >>

\* product.get('brand', [...])[0] raises IndexError on an empty brand list.
ExtractRaises(product) ==
  Get(product, "brand", <<NoBrandAvailable>>) = << >>

\* Variant: a missing productUrl leaves the record without its link field.
extract_product_data_partial(product, clock) ==
  LET product_name    == Get(product, "nameEn", NoNameAvailable)
      product_parts   == SplitFirstComma(product_name)
      name            == product_parts[1]
      additional_name == IF Len(product_parts) > 1 THEN product_parts[2] ELSE << >>
      processor_core  == Get(product, "featureEnProcessorCore", NoProcessorInfoAvailable)
      specs           == IF additional_name # << >>
                         THEN additional_name \o <<",", " ">> \o processor_core
                         ELSE processor_core
      product_link    == Get(product, "productUrl", NoURLAvailable)
      new_price       == Get(product, "sellingPrice", PyNone)
      old_price       == Get(product, "wasPrice", new_price)
      stock           == Get(product, "inStockFlag", FALSE)
      raw_brand       == Get(product, "brand", <<NoBrandAvailable>>)[1]
      brand           == format_brand(raw_brand)
  IN  Dict([ name      |-> name,
             specs     |-> specs,
             new_price |-> new_price,
             old_price |-> old_price,
             brand     |-> brand,
             link      |-> product_link,
             category  |-> CategoryTablets,
             datetime  |-> current_time_str(clock),
             stock     |-> stock,
             store     |-> StoreExtra ],
           {"name", "specs", "new_price", "old_price", "brand", "category",
            "datetime", "stock", "store"}
             \cup (IF "productUrl" \in DOMAIN product THEN {"link"} ELSE {}))

\* Variant: a missing wasPrice gives None, not the selling price.
extract_product_data_was_none(product, clock) ==
  LET product_name    == Get(product, "nameEn", NoNameAvailable)
      product_parts   == SplitFirstComma(product_name)
      name            == product_parts[1]
      additional_name == IF Len(product_parts) > 1 THEN product_parts[2] ELSE << >>
      processor_core  == Get(product, "featureEnProcessorCore", NoProcessorInfoAvailable)
      specs           == IF additional_name # << >>
                         THEN additional_name \o <<",", " ">> \o processor_core
                         ELSE processor_core
      product_link    == Get(product, "productUrl", NoURLAvailable)
      new_price       == Get(product, "sellingPrice", PyNone)
      old_price       == Get(product, "wasPrice", PyNone)
      stock           == Get(product, "inStockFlag", FALSE)
      raw_brand       == Get(product, "brand", <<NoBrandAvailable>>)[1]
      brand           == format_brand(raw_brand)
  IN  [ name      |-> name,
        specs     |-> specs,
        new_price |-> new_price,
        old_price |-> old_price,
        brand     |-> brand,
        link      |-> product_link,
        category  |-> CategoryTablets,
        datetime  |-> current_time_str(clock),
        stock     |-> stock,
        store     |-> StoreExtra ]

extract_product_data(product, clock) ==
  LET product_name    == Get(product, "nameEn", NoNameAvailable)
      product_parts   == SplitFirstComma(product_name)
      name            == product_parts[1]
      additional_name == IF Len(product_parts) > 1 THEN product_parts[2] ELSE << >>
      processor_core  == Get(product, "featureEnProcessorCore", NoProcessorInfoAvailable)
      specs           == IF additional_name # << >>
                         THEN additional_name \o <<",", " ">> \o processor_core
                         ELSE processor_core
      product_link    == Get(product, "productUrl", NoURLAvailable)
      new_price       == Get(product, "sellingPrice", PyNone)
      old_price       == Get(product, "wasPrice", new_price)
      stock           == Get(product, "inStockFlag", FALSE)
      raw_brand       == Get(product, "brand", <<NoBrandAvailable>>)[1]
      brand           == format_brand(raw_brand)
  IN  [ name      |-> name,
        specs     |-> specs,
        new_price |-> new_price,
        old_price |-> old_price,
        brand     |-> brand,
        link      |-> product_link,
        category  |-> CategoryTablets,
        datetime  |-> current_time_str(clock),
        stock     |-> stock,
        store     |-> StoreExtra ]

\* ------------------------------------------------------------------- state
VARIABLES
  pc,               \* position of the run: "startup" (before line 14),
                    \* "fetching" (in the while loop),
                    \* "retrying" (in the except handler, before the sleep),
                    \* "stopped" (loop left, before line 161), "done",
                    \* "crashed" (an exception left fetch_products)
  start_index,      \* fetch_products: running offset
  all_products,     \* fetch_products: the accumulator
  all_responses,    \* fetch_products: decoded bodies
  connection_pool,  \* module global: "pool" or "None"
  pool_used,        \* connections checked out of the pool and not put back
  tx_rows,          \* rows executed on the checked-out connection, uncommitted
  db_rows,          \* rows committed to the table
  commits,          \* number of conn.commit() calls that succeeded
  save_calls,       \* number of calls of save_to_postgresql
  saved_products,   \* the argument `products` of the last such call
  requests,         \* the server's log: offset of every GET issued
  endings,          \* how the iteration of each request ended
  slept,            \* total seconds spent in time.sleep
  now,              \* wall clock (UTC), in seconds
  log,              \* messages printed (the per-product line 99 left out)
  product,          \* extraction harness: the raw item
  record            \* extraction harness: the extracted record

vars == << pc, start_index, all_products, all_responses, connection_pool,
           pool_used, tx_rows, db_rows, commits, save_calls, saved_products,
           requests, endings, slept, now, log, product, record >>

\* ---------------------------------------------------------- the API server
\* The raw items the modelled catalogue cycles through.
Catalog ==
  << [ nameEn |-> <<"A", ",", "b">>,
       featureEnProcessorCore |-> <<"Q">>,
       productUrl |-> <<"u">>,
       sellingPrice |-> Num(90),
       wasPrice |-> Num(100),
       inStockFlag |-> TRUE,
       brand |-> << <<"t","e","c","n","o">> >> ],
     [ nameEn |-> <<"C">>,
       sellingPrice |-> Num(70),
       brand |-> << <<"A","c","e","r">> >> ],
     [ productUrl |-> <<"w">>,
       inStockFlag |-> FALSE ] >>

\* An item whose brand list is empty: extraction raises IndexError on it.
BadItem == [ nameEn |-> <<"Z">>, brand |-> << >> ]

ItemAt(j) == Catalog[(j % Len(Catalog)) + 1]

\* The product list of a page of n items at offset start; bad = 0, or the
\* position of a malformed item.
Page(start, n, bad) ==
  [i \in 1..n |-> IF i = bad THEN BadItem ELSE ItemAt(start + i)]

\* numberOfProducts as the server can report it; PyAbsent leaves the key out
\* and PyNone is a JSON null.
PyAbsent == [t |-> "absent", v |-> 0]

\* The pages the modelled server answers with, as <<item count, position of
\* a malformed item or 0, numberOfProducts>>: the empty page, short pages
\* with every kind of total, a short page with a malformed last item, and
\* full pages.
PageShapes ==
     { <<0, 0, Num(200)>>, <<SmallPage, SmallPage, Num(200)>>,
       <<PageRows, 0, Num(PageRows)>>, <<PageRows, 0, Num(200)>> }
  \cup
     { <<n, 0, tot>> : n \in {1, SmallPage},
                       tot \in {PyAbsent, PyNone, Num(SmallPage), Num(200)} }

\* A decoded JSON body {response: {products: [...], numberOfProducts: t}}.
Body(start, n, bad, tot) ==
  LET full == [products |-> Page(start, n, bad), numberOfProducts |-> tot]
      keys == IF tot.t = "absent" THEN {"products"}
              ELSE {"products", "numberOfProducts"}
  IN  [response |-> Dict(full, keys)]

\* A body without the 'response' key.
EmptyBody == [x \in {} |-> 0]

\* What one session.get can bring: exc (the call raises), the status code,
\* json_ok (response.json() decodes) and the decoded body.
Responses(start) ==
     { [exc |-> TRUE,  status |-> 0,        json_ok |-> FALSE, body |-> EmptyBody],
       [exc |-> FALSE, status |-> 503,      json_ok |-> FALSE, body |-> EmptyBody],
       [exc |-> FALSE, status |-> StatusOk, json_ok |-> FALSE, body |-> EmptyBody],
       [exc |-> FALSE, status |-> StatusOk, json_ok |-> TRUE,  body |-> EmptyBody] }
  \cup
     { [exc |-> FALSE, status |-> StatusOk, json_ok |-> TRUE,
        body |-> Body(start, sh[1], sh[2], sh[3])] : sh \in PageShapes }

\* ---------------------------------------------- fetch_products: loop body
\* The items of `products` the for loop of lines 148-149 appends before it
\* ends or an item raises.
Extracted(products, clock) ==
  LET bad == {i \in 1..Len(products) : ExtractRaises(products[i])}
      upto == IF bad = {} THEN Len(products)
              ELSE (CHOOSE i \in bad : \A j \in bad : i <= j) - 1
  IN  [i \in 1..upto |-> extract_product_data(products[i], clock)]

\* data.get('response', {}).get('products', [])
ProductsOf(data) == Get(Get(data, "response", EmptyBody), "products", << >>)

\* Variant: numberOfProducts is read without a default.
TotalOfNoDefault(data) ==
  Get(Get(data, "response", EmptyBody), "numberOfProducts", PyNone)

\* data.get('response', {}).get('numberOfProducts', 0)
TotalOf(data) == Get(Get(data, "response", EmptyBody), "numberOfProducts", Num(0))

\* Variant: the empty-page test never fires.
NoProductsNever(products) == FALSE

\* `not products` of line 144
NoProducts(products) == Len(products) = 0

\* Variant: the count test is strict.
CountReachedStrict(count, total) == count > total

\* len(all_products) >= total_products
CountReached(count, total) == count >= total

\* How the try body of lines 130-155 ends for the response resp, with the
\* accumulator holding `count` records before it:
\*   "raise"       an exception reaches the except clause of line 157
\*   "bad_status"  break of line 136
\*   "empty"       break of line 146
\*   "fetched_all" break of line 153
\*   "next"        start_index += 96
Ending(resp, count) ==
  IF resp.exc THEN "raise"
  ELSE IF resp.status # StatusOk THEN "bad_status"
  ELSE IF ~resp.json_ok THEN "raise"
  ELSE LET products == ProductsOf(resp.body)
           total    == TotalOf(resp.body)
       IN  IF NoProducts(products) THEN "empty"
           ELSE IF \E i \in 1..Len(products) : ExtractRaises(products[i]) THEN "raise"
           ELSE IF total.t # "num" THEN "raise"
           ELSE IF CountReached(count + Len(products), total.v) THEN "fetched_all"
           ELSE "next"

\* all_responses.append(response.json()) is reached when the status is 200
\* and the body decodes.
Decoded(resp) == ~resp.exc /\ resp.status = StatusOk /\ resp.json_ok

\* The records the iteration appends to all_products.
Appended(resp, clock) ==
  IF Decoded(resp) THEN Extracted(ProductsOf(resp.body), clock) ELSE << >>

\* Variant: the offset advances by two pages.
NextStartIndexSkip(idx, ending) ==
  IF ending = "next" THEN idx + 2 * PageStep ELSE idx

\* Variant: the offset also advances when the iteration raised.
NextStartIndexOnError(idx, ending) ==
  IF ending \in {"next", "raise"} THEN idx + PageStep ELSE idx

\* start_index after the iteration: line 155 is the only assignment.
NextStartIndex(idx, ending) ==
  IF ending = "next" THEN idx + PageStep ELSE idx

\* Variant: the empty page does not leave the loop.
NextPcNoBreakOnEmpty(ending) ==
  CASE ending = "raise"                   -> "retrying"
    [] ending \in {"next", "empty"}       -> "fetching"
    [] OTHER                              -> "stopped"

\* Variant: an exception ends the loop, as a cutoff after one attempt would.
NextPcGiveUp(ending) ==
  CASE ending = "next" -> "fetching"
    [] OTHER           -> "stopped"

\* Variant: a non-success status is retried like an exception.
NextPcRetryStatus(ending) ==
  CASE ending \in {"raise", "bad_status"} -> "retrying"
    [] ending = "next"                     -> "fetching"
    [] OTHER                               -> "stopped"

\* Where control goes after the try body.
NextPc(ending) ==
  CASE ending = "raise" -> "retrying"
    [] ending = "next"  -> "fetching"
    [] OTHER            -> "stopped"

\* The message the iteration prints (lines 135, 145, 152, 158).
Message(ending) ==
  CASE ending = "raise"       -> <<"error">>
    [] ending = "bad_status"  -> <<"failed_status">>
    [] ending = "empty"       -> <<"no_more">>
    [] ending = "fetched_all" -> <<"fetched_all">>
    [] OTHER                  -> << >>

\* One iteration of the while loop up to the break, the increment or the
\* except clause: lines 130-158.
FetchPage ==
  /\ pc = "fetching"
  /\ Len(requests) < MaxRequests
  /\ \E resp \in Responses(start_index) :
       LET ending == Ending(resp, Len(all_products))
       IN  /\ requests' = Append(requests, start_index)
           /\ endings' = Append(endings, ending)
           /\ all_responses' = IF Decoded(resp)
                               THEN Append(all_responses, resp.body)
                               ELSE all_responses
           /\ all_products' = all_products \o Appended(resp, now)
           /\ start_index' = NextStartIndex(start_index, ending)
           /\ pc' = NextPc(ending)
           /\ log' = log \o Message(ending)
  /\ UNCHANGED << connection_pool, pool_used, tx_rows, db_rows, commits,
                  save_calls, saved_products, slept, now, product, record >>

\* time.sleep(5) of the except clause, then back to the head of the loop.
Sleep ==
  /\ pc = "retrying"
  /\ slept' = slept + SleepSeconds
  /\ now' = now + SleepSeconds
  /\ pc' = "fetching"
  /\ UNCHANGED << start_index, all_products, all_responses, connection_pool,
                  pool_used, tx_rows, db_rows, commits, save_calls,
                  saved_products, requests, endings, log, product, record >>

\* ------------------------------------------------------ save_to_postgresql
\* Variant: the tuple follows the key order of the record (brand before
\* link), not the column list of the INSERT.
RowDictOrder(p) ==
  << p.name, p.specs, p.new_price, p.old_price, p.brand, p.link,
     p.category, p.datetime, p.stock, p.store >>

\* The tuple of lines 182-193 for one record.
Row(p) ==
  << p.name, p.specs, p.new_price, p.old_price, p.link, p.brand,
     p.category, p.datetime, p.stock, p.store >>

\* product_data of lines 181-195.
product_data(products) == [i \in 1..Len(products) |-> Row(products[i])]

\* How far the try body of lines 173-200 gets: "ok", or the call that raises
\* ("getconn", "cursor", "batch" while sending row k, "commit").
SaveOutcomes(n) ==
     { [at |-> a, k |-> 0] : a \in {"ok", "getconn", "cursor", "commit"} }
  \cup
     { [at |-> "batch", k |-> k] : k \in {n} \cap (1..n) }

\* connection_pool.getconn() hands out a connection unless it raises; the
\* pool itself raises PoolError once maxconn connections are out.
Acquires(outcome, used) == outcome.at # "getconn" /\ used < MaxConn

\* connection_pool.putconn(conn) is line 199, inside the try body after the
\* commit: it runs when nothing before it raised.
Releases(outcome) == outcome.at = "ok"

\* The rows execute_batch has sent on the connection when the try body ends.
Executed(rows, outcome) ==
  CASE outcome.at \in {"getconn", "cursor"} -> << >>
    [] outcome.at = "batch"                 -> SubSeq(rows, 1, outcome.k - 1)
    [] OTHER                                -> rows

\* Variant: the connection autocommits each row execute_batch sends.
CommittedPartial(rows, outcome) ==
  IF outcome.at = "ok" THEN rows
  ELSE IF outcome.at = "batch" THEN SubSeq(rows, 1, outcome.k - 1)
  ELSE IF outcome.at = "commit" THEN rows
  ELSE << >>

\* The rows conn.commit() makes durable.
Committed(rows, outcome) == IF outcome.at = "ok" THEN rows ELSE << >>

\* Variant: a failure of the try body leaves save_to_postgresql.
PropagatesFailure(outcome) == outcome.at # "ok"

\* `except Exception` of line 202 catches whatever the try body raises.
Propagates(outcome) == FALSE

\* Variant: the hand-off is never made.
PoolAvailableNever(pool) == FALSE

\* `if connection_pool:` of line 161
PoolAvailable(pool) == pool # "None"

\* `if connection_pool is None:` of line 168
PoolIsNone(pool) == pool = "None"

\* Lines 161-162 and the call of save_to_postgresql they make (164-203).
Persist ==
  /\ pc = "stopped"
  /\ IF PoolAvailable(connection_pool)
     THEN /\ save_calls' = save_calls + 1
          /\ saved_products' = all_products
          /\ IF PoolIsNone(connection_pool)
             THEN /\ log' = Append(log, "skip_save")
                  /\ pc' = "done"
                  /\ UNCHANGED << pool_used, tx_rows, db_rows, commits >>
             ELSE \E outcome \in SaveOutcomes(Len(all_products)) :
                    LET rows     == product_data(all_products)
                        acquired == Acquires(outcome, pool_used)
                        failed   == outcome.at # "ok" \/ ~acquired
                    IN  /\ pool_used' = pool_used
                                + (IF acquired THEN 1 ELSE 0)
                                - (IF acquired /\ Releases(outcome) THEN 1 ELSE 0)
                        /\ tx_rows' = IF acquired /\ failed
                                      THEN Executed(rows, outcome) ELSE << >>
                        /\ db_rows' = IF acquired
                                      THEN db_rows \o Committed(rows, outcome)
                                      ELSE db_rows
                        /\ commits' = IF acquired /\ ~failed
                                      THEN commits + 1 ELSE commits
                        /\ log' = Append(log, IF failed THEN "save_error" ELSE "saved")
                        /\ pc' = IF failed /\ Propagates(outcome)
                                 THEN "crashed" ELSE "done"
     ELSE /\ pc' = "done"
          /\ UNCHANGED << save_calls, saved_products, pool_used, tx_rows,
                          db_rows, commits, log >>
  /\ UNCHANGED << start_index, all_products, all_responses, connection_pool,
                  requests, endings, slept, now, product, record >>

\* ------------------------------------------------------------ the program
\* Wall-clock reading the run starts at: five seconds before 24:00 in GMT+3.
StartClock == 75595

\* The module is loaded up to line 13: connection_pool = None, and nothing
\* has run yet.  start_index and the two lists get their values of lines
\* 122-124 here.
Init ==
  /\ pc = "startup"
  /\ start_index = 0
  /\ all_products = << >>
  /\ all_responses = << >>
  /\ connection_pool = "None"
  /\ pool_used = 0
  /\ tx_rows = << >>
  /\ db_rows = << >>
  /\ commits = 0
  /\ save_calls = 0
  /\ saved_products = << >>
  /\ requests = << >>
  /\ endings = << >>
  /\ slept = 0
  /\ now = StartClock
  /\ log = << >>
  /\ product = EmptyBody
  /\ record = << >>

\* Variant: a failed pool creation ends the process.
StartupFatal ==
  /\ pc = "startup"
  /\ \E ok \in BOOLEAN :
       /\ connection_pool' = IF ok THEN "pool" ELSE "None"
       /\ log' = Append(log, IF ok THEN "connected" ELSE "connect_error")
       /\ pc' = IF ok THEN "fetching" ELSE "crashed"
  /\ UNCHANGED << start_index, all_products, all_responses, pool_used,
                  tx_rows, db_rows, commits, save_calls, saved_products,
                  requests, endings, slept, now, product, record >>

\* Lines 14-26: the pool is created, or OperationalError is caught and
\* connection_pool stays None; line 208 then calls fetch_products.
Startup ==
  /\ pc = "startup"
  /\ \E ok \in BOOLEAN :
       /\ connection_pool' = IF ok THEN "pool" ELSE "None"
       /\ log' = Append(log, IF ok THEN "connected" ELSE "connect_error")
  /\ pc' = "fetching"
  /\ UNCHANGED << start_index, all_products, all_responses, pool_used,
                  tx_rows, db_rows, commits, save_calls, saved_products,
                  requests, endings, slept, now, product, record >>

Next == Startup \/ FetchPage \/ Sleep \/ Persist

Spec == Init /\ [][Next]_vars

\* ------------------------------------------- extraction on its own inputs
Titles ==
  { <<"T","a","b"," ","X",","," ","8","G","B"," ","R","A","M">>,
    <<"T","a","b">>,
    <<"A",",","B",",","C">>,
    <<"X",",">> }

Brands ==
  { << <<"t","e","c","n","o">> >>,
    << <<"T","e","c","n","o">>, <<"X">> >>,
    << <<"A","c","e","r">> >>,
    << >> }

ItemKeys ==
  { "nameEn", "featureEnProcessorCore", "productUrl", "sellingPrice",
    "wasPrice", "inStockFlag", "brand" }

\* Raw items with every subset of the keys present.
RawItems ==
  { Dict(full, keys) :
      full \in [ nameEn : Titles,
                 featureEnProcessorCore : { <<"O","c","t","a","-","c","o","r","e">> },
                 productUrl : { <<"u">> },
                 sellingPrice : { Num(100) },
                 wasPrice : { Num(150) },
                 inStockFlag : { TRUE },
                 brand : Brands ],
      keys \in SUBSET ItemKeys }

InitExtract ==
  /\ pc = "extract"
  /\ start_index = 0
  /\ all_products = << >>
  /\ all_responses = << >>
  /\ connection_pool = "None"
  /\ pool_used = 0
  /\ tx_rows = << >>
  /\ db_rows = << >>
  /\ commits = 0
  /\ save_calls = 0
  /\ saved_products = << >>
  /\ requests = << >>
  /\ endings = << >>
  /\ slept = 0
  /\ now \in {0, StartClock}
  /\ log = << >>
  /\ product \in RawItems
  /\ record = << >>

\* One call extract_product_data(product).
ExtractOne ==
  /\ pc = "extract"
  /\ IF ExtractRaises(product)
     THEN pc' = "extract_raised" /\ record' = record
     ELSE pc' = "extracted" /\ record' = extract_product_data(product, now)
  /\ UNCHANGED << start_index, all_products, all_responses, connection_pool,
                  pool_used, tx_rows, db_rows, commits, save_calls,
                  saved_products, requests, endings, slept, now, log, product >>

NextExtract == ExtractOne

SpecExtract == InitExtract /\ [][NextExtract]_vars

\* -------------------------------------------- the run against a finite server
\* The iteration of lines 130-158 against a server that raises finitely
\* often and whose catalogue ends: by its last answer the server has
\* nothing left but an end-of-data answer (non-success status, empty page,
\* or a page that completes the reported total).
FetchLive ==
  /\ pc = "fetching"
  /\ Len(requests) < MaxRequests
  /\ \E resp \in Responses(start_index) :
       LET ending == Ending(resp, Len(all_products))
       IN  /\ Len(requests) = MaxRequests - 1
                => ending \in {"bad_status", "empty", "fetched_all"}
           /\ requests' = Append(requests, start_index)
           /\ endings' = Append(endings, ending)
           /\ all_responses' = IF Decoded(resp)
                               THEN Append(all_responses, resp.body)
                               ELSE all_responses
           /\ all_products' = all_products \o Appended(resp, now)
           /\ start_index' = NextStartIndex(start_index, ending)
           /\ pc' = NextPc(ending)
           /\ log' = log \o Message(ending)
  /\ UNCHANGED << connection_pool, pool_used, tx_rows, db_rows, commits,
                  save_calls, saved_products, slept, now, product, record >>

NextLive == Startup \/ FetchLive \/ Sleep \/ Persist

\* The program is one sequential thread: it always takes its next step.
SpecLive == Init /\ [][NextLive]_vars /\ WF_vars(NextLive)

\* The pipeline and the extraction harness side by side.
InitAll == Init \/ InitExtract

NextAll == Next \/ NextExtract

SpecAll == InitAll /\ [][NextAll]_vars

\* ------------------------------------------ format_brand on its own inputs
\* Every way of capitalising the lower-case string s.
CaseVariants(s) ==
  { [i \in 1..Len(s) |-> IF i \in U THEN UpperChar(s[i]) ELSE s[i]] :
      U \in SUBSET (1..Len(s)) }

\* Brand strings: every capitalisation of three table keys, the values the
\* table produces for them, and strings the table does not know.
BrandStrings ==
  CaseVariants(<<"t","e","c","n","o">>)
    \cup CaseVariants(<<"v","i","v","o">>)
    \cup CaseVariants(<<"s","a","m","s","n","g">>)
    \cup { brand_mapping[i][j] : i \in 1..Len(brand_mapping), j \in {1, 2} }
    \cup { <<"A","c","e","r">>, <<"t","e","c","n","o","s">>, << >>,
           NoBrandAvailable }

InitBrand ==
  /\ pc = "brand"
  /\ start_index = 0
  /\ all_products = << >>
  /\ all_responses = << >>
  /\ connection_pool = "None"
  /\ pool_used = 0
  /\ tx_rows = << >>
  /\ db_rows = << >>
  /\ commits = 0
  /\ save_calls = 0
  /\ saved_products = << >>
  /\ requests = << >>
  /\ endings = << >>
  /\ slept = 0
  /\ now = StartClock
  /\ log = << >>
  /\ product \in BrandStrings
  /\ record = << >>

\* format_brand(product): record holds the result.
FormatOnce ==
  /\ pc = "brand"
  /\ record' = << format_brand(product) >>
  /\ pc' = "brand1"
  /\ UNCHANGED << start_index, all_products, all_responses, connection_pool,
                  pool_used, tx_rows, db_rows, commits, save_calls,
                  saved_products, requests, endings, slept, now, log, product >>

\* format_brand applied to the result of the first call.
FormatAgain ==
  /\ pc = "brand1"
  /\ record' = Append(record, format_brand(record[1]))
  /\ pc' = "brand2"
  /\ UNCHANGED << start_index, all_products, all_responses, connection_pool,
                  pool_used, tx_rows, db_rows, commits, save_calls,
                  saved_products, requests, endings, slept, now, log, product >>

NextBrand == FormatOnce \/ FormatAgain

SpecBrand == InitBrand /\ [][NextBrand]_vars

\* ================================================================ claims
Last(q) == q[Len(q)]

\* Number of items of the i-th decoded page.
PageCount(i) == Len(ProductsOf(all_responses[i]))

RECURSIVE Received(_)
\* Items of the first i decoded pages together.
Received(i) == IF i = 0 THEN 0 ELSE Received(i - 1) + PageCount(i)

\* Number of iterations so far that ended in an exception.
Raises == Cardinality({i \in 1..Len(endings) : endings[i] = "raise"})

Running == pc \in {"fetching", "retrying"}
Stopped == pc \in {"stopped", "done"}

\* C1: once save_to_postgresql has returned, no connection it took from the
\* pool is still checked out, whether the batch write succeeded or failed.
C1_ConnectionReturned == pc = "done" => pool_used = 0

\* C2: an iteration that ends in an exception at offset k leaves start_index
\* at k, is followed by exactly one 5-second sleep, and the next request
\* goes to the same offset k.
C2_RetrySameOffset ==
  /\ \A i \in 1..Len(endings) :
       endings[i] = "raise" =>
         /\ i < Len(requests) => requests[i + 1] = requests[i]
         /\ i = Len(requests) => start_index = requests[i] /\ Running
  /\ slept = SleepSeconds * (Raises - (IF pc = "retrying" THEN 1 ELSE 0))
  /\ pc = "retrying" => endings # << >> /\ Last(endings) = "raise"

C2_Witness ==
  /\ Len(requests) = 3
  /\ requests[2] = PageStep /\ endings[2] = "raise"
  /\ requests[3] = PageStep
  /\ slept = SleepSeconds

\* C3: a non-success status ends the run's pagination: it is the last
\* request, the loop has stopped, the offset is not retried and nothing
\* leaves fetch_products as an exception.
C3_BadStatusTerminal ==
  \A i \in 1..Len(endings) :
    endings[i] = "bad_status" =>
      /\ i = Len(requests)
      /\ Stopped
      /\ start_index = requests[i]

C3_Witness ==
  /\ pc = "done"
  /\ Len(requests) = 2
  /\ endings = <<"next", "bad_status">>
  /\ all_products # << >>

\* C4: when every page so far was a non-empty success and each reported the
\* same total T, no request was issued after the accumulated count reached
\* T, the loop has stopped once it is reached, at most T requests were made,
\* and a first page of 96 items with T = 96 is the only page fetched.
C4_StopsAtTotal ==
  ( /\ endings # << >>
    /\ \A i \in 1..Len(endings) : endings[i] \in {"next", "fetched_all"}
    /\ \A i \in 1..Len(all_responses) :
         /\ "numberOfProducts" \in DOMAIN all_responses[i]["response"]
         /\ TotalOf(all_responses[i]) = TotalOf(all_responses[1]) )
  => LET T == TotalOf(all_responses[1]).v
     IN  /\ Len(all_responses) = Len(requests)
         /\ \A i \in 1..(Len(requests) - 1) : Received(i) < T
         /\ Len(all_products) = Received(Len(requests))
         /\ Len(all_products) >= T <=> Stopped
         /\ Len(requests) <= T
         /\ (T = PageRows /\ PageCount(1) = PageRows)
              => Len(requests) = 1 /\ Len(all_products) = PageRows

C4_Witness ==
  /\ pc = "done"
  /\ endings = <<"fetched_all">>
  /\ TotalOf(all_responses[1]) = Num(PageRows)
  /\ Len(all_products) = PageRows
  /\ requests = <<0>>

\* C5: an empty product list stops the loop whatever the reported total, and
\* the iteration that meets it adds no record; with total 200, 96 items at
\* offset 0 and an empty page at offset 96 the run makes exactly 2 requests
\* and holds exactly 96 records.
C5_EmptyPageStops ==
  /\ [](\A i \in 1..Len(all_responses) :
          PageCount(i) = 0 => i = Len(all_responses) /\ Stopped)
  /\ []( ( /\ Raises = 0
           /\ Len(all_responses) >= 2
           /\ PageCount(1) = PageRows
           /\ TotalOf(all_responses[1]) = Num(200)
           /\ PageCount(2) = 0 )
         => /\ requests = <<0, PageStep>>
            /\ Len(all_products) = PageRows )
  /\ [][ (Len(all_responses') > Len(all_responses)
            /\ Len(ProductsOf(Last(all_responses'))) = 0)
         => all_products' = all_products /\ pc' = "stopped" ]_vars
  /\ [][ Stopped => requests' = requests ]_vars

C5_Witness ==
  /\ pc = "done"
  /\ requests = <<0, PageStep>>
  /\ Len(all_responses) = 2
  /\ PageCount(1) = PageRows
  /\ TotalOf(all_responses[1]) = Num(200)
  /\ PageCount(2) = 0
  /\ Len(all_products) = PageRows

\* C6: with the pool available, save_to_postgresql is called exactly once,
\* only after the loop has stopped on one of its three stop conditions, with
\* the whole accumulator; no request and no second call follow it.
C6_PersistOnce ==
  /\ []( /\ save_calls <= 1
         /\ (Running \/ pc = "stopped") => save_calls = 0
         /\ (pc = "done" /\ connection_pool = "pool") => save_calls = 1
         /\ save_calls = 1 =>
              /\ pc = "done"
              /\ saved_products = all_products
              /\ endings # << >>
              /\ Last(endings) \in {"bad_status", "empty", "fetched_all"} )
  /\ [][ pc \notin {"done", "crashed"} ]_vars

C6_Witness ==
  /\ pc = "done"
  /\ connection_pool = "pool"
  /\ save_calls = 1
  /\ Len(requests) = 3
  /\ Len(saved_products) > PageRows

\* C7: when the pool could not be created the process goes on, pagination
\* runs to one of its stop conditions, and at no point is a connection taken
\* or a row written.
PoolInitFailed == log # << >> /\ log[1] = "connect_error"

C7_DegradedMode ==
  PoolInitFailed =>
    /\ connection_pool = "None"
    /\ Running \/ Stopped
    /\ pool_used = 0 /\ tx_rows = << >> /\ db_rows = << >> /\ commits = 0
    /\ pc = "done" =>
         endings # << >> /\ Last(endings) \in {"bad_status", "empty", "fetched_all"}

C7_Witness ==
  /\ PoolInitFailed
  /\ pc = "done"
  /\ Len(all_products) > PageRows
  /\ Last(endings) = "fetched_all"

\* C8: a failure inside save_to_postgresql does not leave it as an
\* exception, and the batch is attempted once: after the failure the run is
\* over, with one call made and nothing committed.
SaveFailed == log # << >> /\ Last(log) = "save_error"

C8_SaveFailureContained ==
  /\ [](pc # "crashed")
  /\ [](SaveFailed => pc = "done" /\ save_calls = 1 /\ commits = 0)
  /\ [][ ~SaveFailed ]_vars

C8_Witness ==
  /\ SaveFailed
  /\ pc = "done"
  /\ Len(saved_products) = PageRows
  /\ tx_rows # << >>

\* C9: a successful save of N records commits exactly N rows, one per
\* record and in one commit; a failed one commits none: the table never
\* holds a partial batch.
C9_AllOrNothing ==
  /\ commits <= 1
  /\ Len(db_rows) \in {0, Len(all_products)}
  /\ (log # << >> /\ Last(log) = "saved") =>
       /\ commits = 1
       /\ Len(db_rows) = Len(saved_products)
       /\ \A i \in 1..Len(db_rows) : db_rows[i] = Row(saved_products[i])
  /\ SaveFailed => db_rows = << >> /\ commits = 0

C9_Witness ==
  /\ log # << >> /\ Last(log) = "saved"
  /\ Len(db_rows) = PageRows + 1
  /\ commits = 1

\* C10: the title is split on its first comma: "Tab X, 8GB RAM" with
\* processor "Octa-core" gives name "Tab X" and specs "8GB RAM, Octa-core";
\* a title without a comma gives name = the title and specs = the processor
\* string alone.
TabX8GB == <<"T","a","b"," ","X",","," ","8","G","B"," ","R","A","M">>

C10_NameSpecsSplit ==
  (pc = "extracted" /\ "nameEn" \in DOMAIN product) =>
    LET title     == product["nameEn"]
        processor == Get(product, "featureEnProcessorCore", NoProcessorInfoAvailable)
    IN  /\ (title = TabX8GB /\ "featureEnProcessorCore" \in DOMAIN product) =>
             /\ record.name = <<"T","a","b"," ","X">>
             /\ record.specs = <<"8","G","B"," ","R","A","M",","," ",
                                 "O","c","t","a","-","c","o","r","e">>
        /\ (\A i \in 1..Len(title) : title[i] # ",") =>
             record.name = title /\ record.specs = processor

\* C11: format_brand is idempotent and case-insensitive: whatever the
\* capitalisation, an input whose upper-case form is a table key gives that
\* key's corrected value ("tecno" and "Tecno" both give "Tecno"), any other
\* input is returned unchanged, and a second application changes nothing.
C11_BrandIdempotent ==
  /\ pc \in {"brand1", "brand2"} =>
       /\ \A i \in 1..Len(brand_mapping) :
            upper(product) = brand_mapping[i][1] => record[1] = brand_mapping[i][2]
       /\ (\A i \in 1..Len(brand_mapping) : upper(product) # brand_mapping[i][1])
            => record[1] = product
       /\ product \in { <<"t","e","c","n","o">>, <<"T","e","c","n","o">> }
            => record[1] = <<"T","e","c","n","o">>
  /\ pc = "brand2" => record[2] = record[1]

C11_Witness ==
  /\ pc = "brand2"
  /\ product = <<"t","e","c","n","o">>
  /\ record = << <<"T","e","c","n","o">>, <<"T","e","c","n","o">> >>

\* C12: a raw item with any subset of its fields missing (and the fields
\* it has well formed) is extracted without failure into a record with all
\* ten fields, each missing source field replaced by its sentinel; so every
\* record of the accumulator and of the batch handed over is complete.
RecordFields ==
  { "name", "specs", "new_price", "old_price", "brand", "link", "category",
    "datetime", "stock", "store" }

Missing(key) == key \notin DOMAIN product

\* The fields the item has are usable: its brand list is not empty.
WellFormed == Missing("brand") \/ product["brand"] # << >>

C12_CompleteRecords ==
  /\ (pc \in {"extracted", "extract_raised"} /\ WellFormed) =>
       /\ pc = "extracted"
       /\ DOMAIN record = RecordFields
       /\ Missing("nameEn") => record.name = NoNameAvailable
       /\ (Missing("nameEn") /\ Missing("featureEnProcessorCore"))
            => record.specs = NoProcessorInfoAvailable
       /\ Missing("brand") => record.brand = NoBrandAvailable
       /\ Missing("productUrl") => record.link = NoURLAvailable
       /\ Missing("inStockFlag") => record.stock = FALSE
       /\ Missing("sellingPrice") => record.new_price = PyNone
       /\ record.category = CategoryTablets /\ record.store = StoreExtra
  /\ \A i \in 1..Len(all_products) : DOMAIN all_products[i] = RecordFields
  /\ \A i \in 1..Len(saved_products) : DOMAIN saved_products[i] = RecordFields

C12_Witness ==
  /\ pc = "extracted"
  /\ DOMAIN product = {}
  /\ record.brand = NoBrandAvailable
  /\ record.link = NoURLAvailable
  /\ record.stock = FALSE

\* C13: when the item has no "was price", old_price equals new_price (both
\* None when the selling price is missing too); when it has one, old_price
\* is that value.
C13_OldPriceDefault ==
  pc = "extracted" =>
    /\ Missing("wasPrice") => record.old_price = record.new_price
    /\ (Missing("wasPrice") /\ Missing("sellingPrice")) => record.old_price = PyNone
    /\ (Missing("wasPrice") /\ ~Missing("sellingPrice"))
         => record.old_price = product["sellingPrice"]
    /\ ~Missing("wasPrice") => record.old_price = product["wasPrice"]

C13_Witness ==
  /\ pc = "extracted"
  /\ Missing("wasPrice")
  /\ ~Missing("sellingPrice")
  /\ record.old_price = Num(100)

\* C14: start_index starts at 0 and is always a non-negative multiple of
\* 96; it changes only by +96, in an iteration that decoded a success
\* response with a non-empty product list and left the accumulated count
\* below the reported total; the offsets requested start at 0 and each is
\* the previous one (retry) or the previous one plus 96 (next page).
C14_OffsetSteps ==
  /\ []( /\ start_index >= 0
         /\ start_index % PageStep = 0
         /\ pc = "startup" => start_index = 0
         /\ requests # << >> => requests[1] = 0
         /\ \A i \in 1..(Len(requests) - 1) :
              requests[i + 1] - requests[i] \in {0, PageStep} )
  /\ [][ start_index' # start_index =>
           /\ start_index' = start_index + PageStep
           /\ requests' = Append(requests, start_index)
           /\ Len(all_responses') = Len(all_responses) + 1
           /\ Len(ProductsOf(Last(all_responses'))) > 0
           /\ TotalOf(Last(all_responses')).t = "num"
           /\ Len(all_products') < TotalOf(Last(all_responses')).v ]_vars

C14_Witness ==
  /\ requests = <<0, PageStep, 2 * PageStep>>
  /\ start_index = 2 * PageStep
  /\ pc = "fetching"

\* C15: the retry has no attempt limit: as long as every request made at
\* the current offset has raised, the run is still in the fetch/sleep cycle
\* at that offset, has not stopped and has not called the persister,
\* whatever was accumulated from earlier pages; the sleep always leads back
\* to another fetch of the same offset.
AllRaisedAt(k) ==
  \A i \in 1..Len(requests) : requests[i] = k => endings[i] = "raise"

C15_RetryUnbounded ==
  /\ []( (requests # << >> /\ AllRaisedAt(Last(requests))) =>
           /\ Running
           /\ start_index = Last(requests)
           /\ save_calls = 0
           /\ db_rows = << >> )
  /\ [][ pc = "retrying" =>
           /\ pc' = "fetching"
           /\ start_index' = start_index
           /\ save_calls' = 0 ]_vars

C15_Witness ==
  /\ Len(requests) = MaxRequests
  /\ requests[1] = 0
  /\ \A i \in 2..Len(requests) : requests[i] = PageStep /\ endings[i] = "raise"
  /\ Len(all_products) >= PageRows
  /\ pc = "retrying"
  /\ save_calls = 0

\* C16: every row given to the batch INSERT holds the fields of one
\* accumulated record in the column order name, specs, new_price, old_price,
\* link, brand, category, datetime, stock, store, and the i-th row comes
\* from the i-th record.
RowsSent == IF db_rows # << >> THEN db_rows ELSE tx_rows

C16_ColumnOrder ==
  /\ Len(RowsSent) <= Len(saved_products)
  /\ \A i \in 1..Len(RowsSent) :
       LET r == RowsSent[i]
           p == saved_products[i]
       IN  /\ Len(r) = 10
           /\ r[1] = p.name
           /\ r[2] = p.specs
           /\ r[3] = p.new_price
           /\ r[4] = p.old_price
           /\ r[5] = p.link
           /\ r[6] = p.brand
           /\ r[7] = p.category
           /\ r[8] = p.datetime
           /\ r[9] = p.stock
           /\ r[10] = p.store

C16_Witness ==
  /\ Len(db_rows) >= 2
  /\ db_rows[1] # db_rows[2]
  /\ db_rows[1][5] # db_rows[1][6]
  /\ db_rows[2][5] = NoURLAvailable

\* C17: an iteration that ends in an exception leaves the accumulator as it
\* was before the iteration, so a retried offset never contributes its
\* records twice.
C17_RaiseLeavesAccumulator ==
  [][ (Len(endings') > Len(endings) /\ Last(endings') = "raise")
      => all_products' = all_products ]_vars

\* C18: against a server that stops raising and whose catalogue ends, the
\* run leaves the loop and finishes the hand-off: it reaches its end, with
\* save_to_postgresql called when the pool is available.
C18_EventuallyDone ==
  <>(pc = "done" /\ (connection_pool = "pool" => save_calls = 1))

C18_Witness ==
  /\ pc = "done"
  /\ connection_pool = "pool"
  /\ save_calls = 1
  /\ Len(requests) = MaxRequests
  /\ Raises >= 1

\* C19: a success response with a non-empty product list and no
\* numberOfProducts ends pagination at once: it is the last response, its
\* records are the tail of the accumulator, the loop has stopped and no
\* later offset is requested, whatever the catalogue really holds.
AbsentTotalPage(i) ==
  /\ PageCount(i) > 0
  /\ "numberOfProducts" \notin DOMAIN all_responses[i]["response"]
  /\ \A j \in 1..PageCount(i) : ~ExtractRaises(ProductsOf(all_responses[i])[j])

C19_AbsentTotalStops ==
  /\ [](\A i \in 1..Len(all_responses) :
          AbsentTotalPage(i) =>
            /\ i = Len(all_responses)
            /\ Stopped
            /\ start_index = Last(requests)
            /\ Len(all_products) >= PageCount(i)
            /\ SubSeq(all_products, Len(all_products) - PageCount(i) + 1,
                      Len(all_products))
                 = Extracted(ProductsOf(all_responses[i]), now))
  /\ [][ (all_responses # << >> /\ AbsentTotalPage(Len(all_responses)))
           => requests' = requests ]_vars

C19_Witness ==
  /\ pc = "done"
  /\ Len(all_responses) = 2
  /\ requests = <<0, PageStep>>
  /\ AbsentTotalPage(2)
  /\ Len(all_products) = PageRows + SmallPage

====
